---- MODULE Spec2Model ----
(***************************************************************************)
(* hob: the device presence reconciliation loop of src/src/index.js        *)
(* (deviceScan), with the classification task it starts per device and the *)
(* external collaborators of network.js and sku.js at their boundary.      *)
(*                                                                         *)
(* JavaScript runs one callback at a time.  The synchronous segment of     *)
(* deviceScan between "await network.arpScan()" and "await Promise.all"    *)
(* is split into one eviction step and one step per scanned device; while  *)
(* it runs (pc = "merging") no other action is enabled and the clock does  *)
(* not advance, so the split adds no interleaving.                         *)
(***************************************************************************)
EXTENDS Integers, Sequences, FiniteSets, TLC

VARIABLES
  now,          \* Date.now(), in ms
  pc,           \* position of the deviceScan invocation
  timers,       \* due times of the pending setTimeout(deviceScan, ..) callbacks
  scanStart,    \* const scanStart
  devices,      \* const devices: the snapshot arpScan returned
  idx,          \* position of "for (const device of devices)"
  macs,         \* const macs
  promises,     \* const promises: the tasks dispatched by this invocation
  deviceTable,  \* Map mac -> device object (an object is named by its id)
  keyOrder,     \* the Map's keys in insertion order, as keys() and values() iterate
  heap,         \* the fields of each device object
  taskPc,       \* position of the classification task created with each object
  hosts,        \* environment: the MACs that answer ARP on this segment
  horizon,      \* environment: how long the segment is observed, in ms
  jitter,       \* environment: the milliseconds by which the clock will still
                \* advance between two reads of one synchronous segment
  stale,        \* history: MACs whose entry had now - seen >= 60s at this pass
  before,       \* history: hostname and sku fields of the entry that a task's
                \* record replaced, until the task's first callback
  fresh,        \* history: MACs whose every probe since insertion resolved to null
  nullRuns      \* history: number of such probes, one per consecutive cycle

vars == <<now, pc, timers, scanStart, devices, idx, macs, promises,
          deviceTable, keyOrder, heap, taskPc, hosts, horizon, jitter, stale, before,
          fresh, nullRuns>>

(***************************************************************************)
(* Bounds of the model.                                                    *)
(***************************************************************************)
MaxScanLen == 2
MaxObjs == 3
StartNow == 100000
LongWatch == 90000
ShortWatch == 10000
JitterWatch == 60000
MaxJitter == 1
MaxRuns == 7

MACS == {"aa:bb", "cc:dd", "ee:ff"}
IPS == {"10.0.0.9", "10.0.0.10"}
Delays == {10000, 59999}
Ids == 1..MaxObjs

(***************************************************************************)
(* JavaScript values of the optional fields.                               *)
(***************************************************************************)
Undefined == [t |-> "undefined", n |-> 0, s |-> ""]
Null == [t |-> "null", n |-> 0, s |-> ""]
NaN == [t |-> "NaN", n |-> 0, s |-> ""]
Num(n) == [t |-> "number", n |-> n, s |-> ""]
Str(s) == [t |-> "string", n |-> 0, s |-> s]

\* x++ on a property
PostIncrement(x) == IF x.t = "number" THEN Num(x.n + 1) ELSE NaN
\* x > k
GreaterThan(x, k) == x.t = "number" /\ x.n > k
\* !!x for the values a string field takes
Truthy(x) == x.t = "string" /\ x.s # ""
\* x != null
NotNullish(x) == x.t # "null" /\ x.t # "undefined"

MAX_TOLERANCE == 5
TTL == 60000
PERIOD == 10000

ignore == {"ee:ff"}

\* the snapshots arpScan can return: lines "ip\tmac", a MAC may repeat
ScanDevice(H) == [ip : IPS, mac : H]
Scans(H) == UNION {[1..n -> ScanDevice(H)] : n \in 0..MaxScanLen}

\* the segments observed: one host and an ignored one for LongWatch, or two
\* hosts and an ignored one for ShortWatch
Segments == {[hosts |-> {"aa:bb", "ee:ff"}, horizon |-> LongWatch, jitter |-> 0],
             [hosts |-> MACS, horizon |-> ShortWatch, jitter |-> 0],
             [hosts |-> {"aa:bb"}, horizon |-> JitterWatch,
              jitter |-> MaxJitter]}

ResolveResults == {Null, Str(""), Str("box")}
StampResults == {Null, Str(""), Str("2024-01-01")}
BiosResults == {Null, Str("1.0")}
KernelResults == {Null, Str("6.1")}

NoObject == [ip |-> "", mac |-> "", hostname |-> Undefined, seen |-> Undefined,
             tolerance |-> Undefined, buildStamp |-> Undefined,
             biosVersion |-> Undefined, kernel |-> Undefined]

\* {ip, mac} as arpScan builds it
NewDevice(d) == [NoObject EXCEPT !.ip = d.ip, !.mac = d.mac]

\* a getter that would publish every device whose hostname resolved
hostnameGetter(o) == Truthy(o.hostname)
skuGetter(o) == Truthy(o.buildStamp)

projectionGetter(o) == [ip |-> o.ip, mac |-> o.mac, buildStamp |-> o.buildStamp,
                        biosVersion |-> o.biosVersion, kernel |-> o.kernel]

Settled == {"free", "done", "rejected"}
InFlight == {i \in Ids : taskPc[i] \notin Settled}

Init ==
  /\ now = StartNow
  /\ pc = "scanning"
  /\ timers = {}
  /\ scanStart = StartNow
  /\ devices = <<>>
  /\ idx = 1
  /\ macs = {}
  /\ promises = {}
  /\ deviceTable = [m \in {} |-> 1]
  /\ keyOrder = <<>>
  /\ heap = [i \in Ids |-> NoObject]
  /\ taskPc = [i \in Ids |-> "free"]
  /\ \E g \in Segments : hosts = g.hosts /\ horizon = g.horizon /\ jitter = g.jitter
  /\ stale = {}
  /\ before = [m \in {} |-> NoObject]
  /\ fresh = {}
  /\ nullRuns = [m \in MACS |-> 0]
(***************************************************************************)
(* Helpers of deviceScan.                                                  *)
(***************************************************************************)
\* (device.seen || 0)
SeenOrZero(o) == IF o.seen.t = "number" THEN o.seen.n ELSE 0

\* the negation of "Date.now() - (device.seen || 0) < 6e4": the entry is deleted
StaleLate(o, t) == t - SeenOrZero(o) > TTL
StaleEarly(o, t) == t - SeenOrZero(o) >= TTL - 1
Stale(o, t) == ~(t - SeenOrZero(o) < TTL)

\* macs.has(device.mac)
NeverDuplicate(seenMacs, mac) == FALSE
IsDuplicate(seenMacs, mac) == mac \in seenMacs

\* ignore.has(device.mac)
NeverIgnored(mac) == FALSE
IsIgnored(mac) == mac \in ignore

\* saved.tolerance > MAX_TOLERANCE || saved.sku
SkipProbeNoSku(saved) == GreaterThan(saved.tolerance, MAX_TOLERANCE)
SkipProbeNoTolerance(saved) == skuGetter(saved)
SkipProbe(saved) == GreaterThan(saved.tolerance, MAX_TOLERANCE) \/ skuGetter(saved)

\* Promise.all(promises) fulfils when every promise is fulfilled ...
JoinWithoutWaiting(prm) == TRUE
JoinReady(prm) == \A i \in prm : taskPc[i] = "done"
\* ... and rejects as soon as one is rejected
JoinRejected(prm) == \E i \in prm : taskPc[i] = "rejected"

\* Math.max(0, 1e4 - (Date.now() - scanStart))
NextScan(t, start) == IF PERIOD - (t - start) > 0 THEN PERIOD - (t - start) ELSE 0

Range(f) == {f[x] : x \in DOMAIN f}

\* the object a new device gets: the lowest unused id
FreeIds == {i \in Ids : taskPc[i] = "free"}
NewId == CHOOSE i \in FreeIds : \A j \in FreeIds : i <= j

\* objects that neither the table nor a pending callback nor the promises
\* array reaches are garbage
Garbage(tbl, tpc, prm) ==
  {i \in Ids : tpc[i] \in {"done", "rejected"} /\ i \notin Range(tbl) /\ i \notin prm}
CollectHeap(hp, tbl, tpc, prm) ==
  [i \in Ids |-> IF i \in Garbage(tbl, tpc, prm) THEN NoObject ELSE hp[i]]
CollectTasks(tbl, tpc, prm) ==
  [i \in Ids |-> IF i \in Garbage(tbl, tpc, prm) THEN "free" ELSE tpc[i]]

Restrict(f, S) == [x \in S |-> f[x]]
\* the keys left after deviceTable.delete of the MACs of S
DeleteKeys(keys, S) == LET Kept(m) == m \notin S IN SelectSeq(keys, Kept)
\* the hostname and sku fields of an object
ClassState(o) == [hostname |-> o.hostname, buildStamp |-> o.buildStamp,
                  biosVersion |-> o.biosVersion, kernel |-> o.kernel]
\* callbacks run only while deviceScan is suspended at an await
LoopSuspendedAlways == TRUE
LoopSuspended == pc # "merging"
ResetRuns(S) == [m \in MACS |-> IF m \in S THEN 0 ELSE nullRuns[m]]

(***************************************************************************)
(* deviceScan                                                              *)
(***************************************************************************)
\* setTimeout fires: deviceScan() runs up to "await network.arpScan()"
DeviceScanStart ==
  /\ pc = "idle"
  /\ \E due \in timers :
       /\ due <= now
       /\ timers' = timers \ {due}
  /\ pc' = "scanning"
  /\ scanStart' = now
  /\ UNCHANGED <<now, devices, idx, macs, promises, deviceTable, keyOrder, heap,
                 taskPc, hosts, horizon, jitter, stale, before, fresh, nullRuns>>

\* the milliseconds after the first Date.now() of the eviction loop at which
\* each of its n iterations reads the clock
ReadTimes(n, left) == {f \in [1..n -> 0..left] : \A k \in 1..n : \A j \in 1..k : f[j] <= f[k]}

\* arpScan resolves (an empty list when arp-scan failed); the eviction loop runs
ArpScanReturns ==
  /\ pc = "scanning"
  /\ \E late \in ReadTimes(Len(keyOrder), jitter) :
       LET n == Len(keyOrder)
           readAt == [m \in DOMAIN deviceTable |->
                        now + late[CHOOSE k \in 1..n : keyOrder[k] = m]]
           gone == {m \in DOMAIN deviceTable : Stale(heap[deviceTable[m]], readAt[m])}
           tbl == Restrict(deviceTable, DOMAIN deviceTable \ gone)
           spent == IF n = 0 THEN 0 ELSE late[n]
       IN /\ now' = now + spent
          /\ jitter' = jitter - spent
          /\ deviceTable' = tbl
          /\ keyOrder' = DeleteKeys(keyOrder, gone)
          /\ heap' = CollectHeap(heap, tbl, taskPc, {})
          /\ taskPc' = CollectTasks(tbl, taskPc, {})
          /\ stale' = {m \in DOMAIN deviceTable :
                          \/ heap[deviceTable[m]].seen.t # "number"
                          \/ readAt[m] - heap[deviceTable[m]].seen.n >= TTL}
          /\ fresh' = fresh \ gone
          /\ nullRuns' = ResetRuns(gone)
  /\ macs' = {}
  /\ promises' = {}
  /\ idx' = 1
  /\ before' = [m \in {} |-> NoObject]
  /\ pc' = "merging"
  /\ UNCHANGED <<timers, scanStart, hosts, horizon>>
  /\ devices' \in Scans(hosts)

\* Bun.spawn throws in arpScan: deviceScan rejects and nothing reschedules it
ArpScanThrows ==
  /\ pc = "scanning"
  /\ pc' = "crashed"
  /\ UNCHANGED <<now, timers, scanStart, devices, idx, macs, promises,
                 deviceTable, keyOrder, heap, taskPc, hosts, horizon, jitter, stale, before,
                 fresh, nullRuns>>

\* one iteration of "for (const device of devices)"
MergeDevice ==
  /\ pc = "merging"
  /\ idx <= Len(devices)
  /\ idx' = idx + 1
  /\ LET device == devices[idx]
         mac == device.mac
     IN IF IsDuplicate(macs, mac) \/ IsIgnored(mac)
        THEN UNCHANGED <<macs, promises, deviceTable, keyOrder, heap, taskPc,
                         before, fresh, nullRuns>>
        ELSE
          /\ macs' = macs \cup {mac}
          /\ IF mac \in DOMAIN deviceTable
             THEN LET saved == deviceTable[mac]
                      refreshed == [heap EXCEPT ![saved].seen = Num(now),
                                                ![saved].ip = device.ip]
                  IN IF SkipProbe(refreshed[saved])
                     THEN /\ heap' = refreshed
                          /\ UNCHANGED <<promises, deviceTable, keyOrder, taskPc,
                                         before, fresh, nullRuns>>
                     ELSE /\ FreeIds # {}
                          /\ LET id == NewId
                                 obj == [NewDevice(device) EXCEPT
                                           !.tolerance = refreshed[saved].tolerance]
                                 tbl == [deviceTable EXCEPT ![mac] = id]
                                 tpc == [taskPc EXCEPT ![id] = "resolve"]
                                 prm == promises \cup {id}
                             IN /\ deviceTable' = tbl
                                /\ promises' = prm
                                /\ heap' = CollectHeap([refreshed EXCEPT ![id] = obj],
                                                       tbl, tpc, prm)
                                /\ taskPc' = CollectTasks(tbl, tpc, prm)
                          /\ before' = [m \in DOMAIN before \cup {mac} |->
                                          IF m = mac THEN ClassState(heap[saved])
                                                     ELSE before[m]]
                          /\ UNCHANGED <<keyOrder, fresh, nullRuns>>
             ELSE /\ FreeIds # {}
                  /\ LET id == NewId
                         tbl == [m \in DOMAIN deviceTable \cup {mac} |->
                                   IF m = mac THEN id ELSE deviceTable[m]]
                     IN /\ deviceTable' = tbl
                        /\ promises' = promises \cup {id}
                        /\ heap' = [heap EXCEPT ![id] = NewDevice(device)]
                        /\ taskPc' = [taskPc EXCEPT ![id] = "resolve"]
                  /\ keyOrder' = Append(keyOrder, mac)
                  /\ before' = before
                  /\ fresh' = fresh \cup {mac}
                  /\ nullRuns' = ResetRuns({mac})
  /\ UNCHANGED <<now, pc, timers, scanStart, devices, hosts, horizon, jitter, stale>>

\* the loop is over: deviceScan suspends at "await Promise.all(promises)";
\* devices is not read again
AwaitAll ==
  /\ pc = "merging"
  /\ idx > Len(devices)
  /\ pc' = "waiting"
  /\ devices' = <<>>
  /\ idx' = 1
  /\ fresh' = fresh \cap macs
  /\ nullRuns' = ResetRuns(fresh \ macs)
  /\ UNCHANGED <<now, timers, scanStart, macs, promises,
                 deviceTable, keyOrder, heap, taskPc, hosts, horizon, jitter, stale,
                 before>>

\* Promise.all fulfils: setTimeout(deviceScan, nextScan) and the invocation ends
ScanJoin ==
  /\ pc = "waiting"
  /\ ~JoinRejected(promises)
  /\ JoinReady(promises)
  /\ timers' = timers \cup {now + NextScan(now, scanStart)}
  /\ pc' = "idle"
  /\ promises' = {}
  /\ macs' = {}
  /\ before' = [m \in {} |-> NoObject]
  /\ heap' = CollectHeap(heap, deviceTable, taskPc, {})
  /\ taskPc' = CollectTasks(deviceTable, taskPc, {})
  /\ UNCHANGED <<now, scanStart, devices, idx, deviceTable, keyOrder, hosts,
                 horizon, jitter, stale, fresh, nullRuns>>

\* Promise.all rejects: deviceScan rejects before setTimeout
ScanReject ==
  /\ pc = "waiting"
  /\ JoinRejected(promises)
  /\ pc' = "crashed"
  /\ UNCHANGED <<now, timers, scanStart, devices, idx, macs, promises,
                 deviceTable, keyOrder, heap, taskPc, hosts, horizon, jitter, stale, before,
                 fresh, nullRuns>>

(***************************************************************************)
(* The classification task: network.resolveHost(device.ip).then(...)       *)
(***************************************************************************)
\* the streak of null resolutions of the table's entry, for the history
AfterResolve(o, id, r) ==
  IF o.mac \in DOMAIN deviceTable /\ deviceTable[o.mac] = id /\ o.mac \in fresh
  THEN IF r = Null
       THEN /\ fresh' = fresh
            /\ nullRuns' = [nullRuns EXCEPT ![o.mac] =
                              IF @ < MaxRuns THEN @ + 1 ELSE @]
       ELSE /\ fresh' = fresh \ {o.mac}
            /\ nullRuns' = ResetRuns({o.mac})
  ELSE UNCHANGED <<fresh, nullRuns>>

\* a test that would count an empty hostname as a failed resolution
HostnameIsFalsy(r) == ~Truthy(r)
\* "hostname == null"
HostnameIsNull(r) == ~NotNullish(r)

\* the history of the replaced entry is kept up to the task's first callback
ForgetBefore(o) == before' = Restrict(before, DOMAIN before \ {o.mac})

\* resolveHost resolves and the callback runs up to its return or first await
ResolveHostReturns ==
  /\ LoopSuspended
  /\ \E id \in Ids, r \in ResolveResults :
       /\ taskPc[id] = "resolve"
       /\ LET seenNow == [heap[id] EXCEPT !.hostname = r, !.seen = Num(now)]
              obj == IF HostnameIsNull(r)
                     THEN [seenNow EXCEPT !.tolerance = PostIncrement(@)]
                     ELSE seenNow
              tpc == [taskPc EXCEPT ![id] =
                        IF HostnameIsNull(r) \/ r = Str("") THEN "done" ELSE "stamp"]
          IN /\ heap' = CollectHeap([heap EXCEPT ![id] = obj], deviceTable, tpc, promises)
             /\ taskPc' = CollectTasks(deviceTable, tpc, promises)
       /\ AfterResolve(heap[id], id, r)
       /\ ForgetBefore(heap[id])
  /\ UNCHANGED <<now, pc, timers, scanStart, devices, idx, macs, promises,
                 deviceTable, keyOrder, hosts, horizon, jitter, stale>>

\* Bun.spawn throws in resolveHost: the task's promise rejects
ResolveHostThrows ==
  /\ LoopSuspended
  /\ \E id \in Ids :
       /\ taskPc[id] = "resolve"
       /\ LET tpc == [taskPc EXCEPT ![id] = "rejected"]
          IN /\ heap' = CollectHeap(heap, deviceTable, tpc, promises)
             /\ taskPc' = CollectTasks(deviceTable, tpc, promises)
       /\ ForgetBefore(heap[id])
  /\ UNCHANGED <<now, pc, timers, scanStart, devices, idx, macs, promises,
                 deviceTable, keyOrder, hosts, horizon, jitter, stale,
                 fresh, nullRuns>>

\* sku.buildStamp resolves
BuildStampReturns ==
  /\ LoopSuspended
  /\ \E id \in Ids, buildStamp \in StampResults :
       /\ taskPc[id] = "stamp"
       /\ LET obj == IF NotNullish(buildStamp)
                     THEN [heap[id] EXCEPT !.buildStamp = buildStamp]
                     ELSE [heap[id] EXCEPT !.tolerance = PostIncrement(@)]
              tpc == [taskPc EXCEPT ![id] =
                        IF NotNullish(buildStamp) THEN "bios" ELSE "done"]
          IN /\ heap' = CollectHeap([heap EXCEPT ![id] = obj], deviceTable, tpc, promises)
             /\ taskPc' = CollectTasks(deviceTable, tpc, promises)
  /\ UNCHANGED <<now, pc, timers, scanStart, devices, idx, macs, promises,
                 deviceTable, keyOrder, hosts, horizon, jitter, stale, before,
                 fresh, nullRuns>>

\* sku.biosVersion resolves
BiosVersionReturns ==
  /\ LoopSuspended
  /\ \E id \in Ids, v \in BiosResults :
       /\ taskPc[id] = "bios"
       /\ heap' = [heap EXCEPT ![id].biosVersion = v]
       /\ taskPc' = [taskPc EXCEPT ![id] = "kernel"]
  /\ UNCHANGED <<now, pc, timers, scanStart, devices, idx, macs, promises,
                 deviceTable, keyOrder, hosts, horizon, jitter, stale, before,
                 fresh, nullRuns>>

\* sku.kernel resolves and the callback ends
KernelReturns ==
  /\ LoopSuspended
  /\ \E id \in Ids, v \in KernelResults :
       /\ taskPc[id] = "kernel"
       /\ LET obj == [heap[id] EXCEPT !.kernel = v, !.tolerance = Num(0)]
              tpc == [taskPc EXCEPT ![id] = "done"]
          IN /\ heap' = CollectHeap([heap EXCEPT ![id] = obj], deviceTable, tpc, promises)
             /\ taskPc' = CollectTasks(deviceTable, tpc, promises)
  /\ UNCHANGED <<now, pc, timers, scanStart, devices, idx, macs, promises,
                 deviceTable, keyOrder, hosts, horizon, jitter, stale, before,
                 fresh, nullRuns>>

\* Bun.spawn throws in one of the sku reads
ProbeThrows ==
  /\ LoopSuspended
  /\ \E id \in Ids :
       /\ taskPc[id] \in {"stamp", "bios", "kernel"}
       /\ LET tpc == [taskPc EXCEPT ![id] = "rejected"]
          IN /\ heap' = CollectHeap(heap, deviceTable, tpc, promises)
             /\ taskPc' = CollectTasks(deviceTable, tpc, promises)
  /\ UNCHANGED <<now, pc, timers, scanStart, devices, idx, macs, promises,
                 deviceTable, keyOrder, hosts, horizon, jitter, stale, before,
                 fresh, nullRuns>>

\* time passes while the event loop waits, also after deviceScan has rejected
Tick ==
  /\ pc \in {"idle", "scanning", "waiting", "crashed"}
  /\ \E d \in Delays :
       /\ now + d <= StartNow + horizon
       /\ now' = now + d
  /\ UNCHANGED <<pc, timers, scanStart, devices, idx, macs, promises,
                 deviceTable, keyOrder, heap, taskPc, hosts, horizon, jitter, stale, before,
                 fresh, nullRuns>>

\* the clock advances between two Date.now() of the eviction and merge loops
SegmentTick ==
  /\ pc = "merging"
  /\ jitter > 0
  /\ now' = now + 1
  /\ jitter' = jitter - 1
  /\ UNCHANGED <<pc, timers, scanStart, devices, idx, macs, promises,
                 deviceTable, keyOrder, heap, taskPc, hosts, horizon, stale, before,
                 fresh, nullRuns>>

Next ==
  \/ DeviceScanStart
  \/ ArpScanReturns
  \/ ArpScanThrows
  \/ MergeDevice
  \/ AwaitAll
  \/ ScanJoin
  \/ ScanReject
  \/ ResolveHostReturns
  \/ ResolveHostThrows
  \/ BuildStampReturns
  \/ BiosVersionReturns
  \/ KernelReturns
  \/ ProbeThrows
  \/ Tick
  \/ SegmentTick

Spec == Init /\ [][Next]_vars

(***************************************************************************)
(* GET /devices.  The handler is synchronous and writes nothing: its       *)
(* response is a function of the table at the moment it runs, which is any *)
(* moment at which deviceScan is suspended.                                *)
(***************************************************************************)
\* the keys of the devices that pass "if (device.sku)", in the order in which
\* deviceTable.values() yields them
ListedKeys == LET Sku(m) == skuGetter(heap[deviceTable[m]])
              IN SelectSeq(keyOrder, Sku)
\* a value used as a property name
PropertyKey(x) == CASE x.t = "string" -> x.s
                    [] x.t = "number" -> ToString(x.n)
                    [] x.t = "NaN" -> "NaN"
                    [] x.t = "null" -> "null"
                    [] OTHER -> "undefined"
\* an element as Array.prototype.join writes it
JoinElement(x) == CASE x.t = "string" -> x.s
                    [] x.t = "number" -> ToString(x.n)
                    [] x.t = "NaN" -> "NaN"
                    [] OTHER -> ""
\* result of the JSON branch: a later device overwrites an equal hostname
DevicesJson ==
  LET key(k) == PropertyKey(heap[deviceTable[ListedKeys[k]]].hostname)
      last(h) == CHOOSE k \in 1..Len(ListedKeys) :
                   /\ key(k) = h
                   /\ \A j \in 1..Len(ListedKeys) : key(j) = h => j <= k
  IN [h \in {key(k) : k \in 1..Len(ListedKeys)} |->
        projectionGetter(heap[deviceTable[ListedKeys[last(h)]]])]
\* result of the text branch, the array that join(',') writes
DevicesText ==
  [k \in 1..Len(ListedKeys) |-> JoinElement(heap[deviceTable[ListedKeys[k]]].hostname)]

(***************************************************************************)
(* Vocabulary of the properties.                                           *)
(***************************************************************************)
Entry(m) == heap[deviceTable[m]]
TasksInFlightFor(m) == {i \in Ids : taskPc[i] \in {"resolve", "stamp", "bios", "kernel"}
                                     /\ heap[i].mac = m}
\* this step starts a classification task for m
Dispatched(m) == \E i \in Ids : taskPc[i] = "free" /\ taskPc'[i] = "resolve"
                                 /\ heap'[i].mac = m
HasBuildStamp(m) == /\ m \in DOMAIN deviceTable
                    /\ Entry(m).buildStamp.t \notin {"undefined", "null"}
Classified(m) == /\ m \in DOMAIN deviceTable
                 /\ Entry(m).buildStamp.t = "string"
                 /\ Entry(m).buildStamp.s # ""

(***************************************************************************)
(* C1: in every reachable state, for every MAC, at most one classification *)
(* task is in flight, across cycles and for snapshots that repeat a MAC.   *)
(***************************************************************************)
AtMostOneClassification ==
  \A m \in MACS : Cardinality(TasksInFlightFor(m)) <= 1

\* a snapshot named one MAC twice and its task is in flight
RepeatedMacProbedOnce ==
  /\ pc = "merging"
  /\ idx > Len(devices)
  /\ \E i, j \in 1..Len(devices) :
       /\ i < j
       /\ devices[i].mac = devices[j].mac
       /\ Cardinality(TasksInFlightFor(devices[i].mac)) = 1

(***************************************************************************)
(* C2: cycles never overlap: at most one invocation of deviceScan is       *)
(* running or scheduled, a cycle starts only when no task is in flight,    *)
(* and during eviction and merge every task in flight was dispatched by    *)
(* the running cycle.                                                      *)
(***************************************************************************)
CyclesNeverOverlap ==
  /\ Cardinality(timers) + (IF pc \in {"scanning", "merging", "waiting"} THEN 1 ELSE 0) <= 1
  /\ pc \in {"idle", "scanning"} =>
       \A i \in Ids : taskPc[i] \in {"free", "done", "rejected"}
  /\ pc \in {"merging", "waiting"} =>
       \A i \in Ids : taskPc[i] \in {"free", "done", "rejected"} \/ i \in promises

\* a later cycle merges after the task of an earlier one has completed
LaterCycleAfterJoin ==
  /\ pc = "merging"
  /\ idx = 1
  /\ \E m \in DOMAIN deviceTable : taskPc[deviceTable[m]] = "done"

(***************************************************************************)
(* C3 as stated: once buildStamp is set for a MAC it stays set, and no     *)
(* classification task is dispatched for that MAC any more.                *)
(***************************************************************************)
BuildStampPermanentForMac ==
  [][\A m \in MACS : HasBuildStamp(m) => HasBuildStamp(m)' /\ ~Dispatched(m)]_vars

(***************************************************************************)
(* C3 amended: once the entry of a MAC is classified (buildStamp is a      *)
(* non-empty string), then for as long as that entry is not evicted it     *)
(* stays the table's entry, its buildStamp is not changed, and no          *)
(* classification task is dispatched for the MAC.                          *)
(***************************************************************************)
ClassifiedEntryPermanent ==
  [][\A m \in MACS :
       Classified(m) /\ m \in DOMAIN deviceTable' =>
         /\ deviceTable'[m] = deviceTable[m]
         /\ Entry(m)'.buildStamp = Entry(m).buildStamp
         /\ ~Dispatched(m)]_vars

\* a later cycle scanned a classified device and left it alone
ClassifiedSkipped ==
  /\ pc = "merging"
  /\ \E m \in macs : Classified(m) /\ taskPc[deviceTable[m]] = "done"

(***************************************************************************)
(* C4: a newly discovered device that is in consecutive scans and whose    *)
(* hostname resolution returned null every time has tolerance 6 after the  *)
(* 6th cycle and is not probed in the 7th.                                 *)
(***************************************************************************)
ThrottledAfterSixNulls ==
  \A m \in fresh :
    nullRuns[m] >= 6 =>
      /\ nullRuns[m] = 6
      /\ m \in DOMAIN deviceTable
      /\ Entry(m).tolerance = Num(6)
      /\ TasksInFlightFor(m) = {}

(***************************************************************************)
(* C5: for a MAC that stays in the table, each change of tolerance is +1   *)
(* by one failed probe or a reset to 0 by a successful classification.     *)
(***************************************************************************)
ToleranceStepOrReset ==
  [][\A m \in MACS :
       (/\ m \in DOMAIN deviceTable
        /\ m \in DOMAIN deviceTable'
        /\ Entry(m)'.tolerance # Entry(m).tolerance)
       =>
       \/ /\ deviceTable'[m] = deviceTable[m]
          /\ taskPc[deviceTable[m]] \in {"resolve", "stamp"}
          /\ taskPc'[deviceTable[m]] = "done"
          /\ Entry(m).tolerance.t = "number"
          /\ Entry(m)'.tolerance = Num(Entry(m).tolerance.n + 1)
       \/ /\ deviceTable'[m] = deviceTable[m]
          /\ taskPc[deviceTable[m]] = "kernel"
          /\ taskPc'[deviceTable[m]] = "done"
          /\ Entry(m)'.tolerance = Num(0)]_vars

(***************************************************************************)
(* C6: an entry whose tolerance is greater than MAX_TOLERANCE (6) is never *)
(* enqueued while it stays in the table; a task is dispatched for its MAC  *)
(* only after it was evicted, for an entry inserted as new.                *)
(***************************************************************************)
ThrottledNeverEnqueued ==
  [][\A m \in MACS :
       /\ (/\ m \in DOMAIN deviceTable
           /\ Entry(m).tolerance.t = "number"
           /\ Entry(m).tolerance.n > 5
           /\ m \in DOMAIN deviceTable')
          => /\ deviceTable'[m] = deviceTable[m]
             /\ Entry(m)'.tolerance = Entry(m).tolerance
             /\ ~Dispatched(m)
       /\ (Dispatched(m) /\ m \notin DOMAIN deviceTable)
          => Entry(m)'.tolerance = Undefined]_vars

\* a cycle scanned a device whose tolerance is 6 and did not probe it
ThrottledSkipped ==
  /\ pc = "merging"
  /\ \E m \in macs : /\ m \in DOMAIN deviceTable
                     /\ Entry(m).tolerance = Num(6)
                     /\ TasksInFlightFor(m) = {}

(***************************************************************************)
(* C7 as stated: every device whose entry has now - seen >= 60s when a     *)
(* reconciliation pass runs is absent from the table after that pass,      *)
(* whatever the snapshot of the pass contains.                             *)
(***************************************************************************)
StaleAbsentAfterPass ==
  pc = "waiting" => \A m \in stale : m \notin DOMAIN deviceTable

(***************************************************************************)
(* C7 amended: every entry with now - seen >= 60s when a pass runs is      *)
(* deleted by the eviction of that pass; after the pass its MAC is absent  *)
(* from the table unless the snapshot of the pass names the MAC, and then  *)
(* the table holds an entry created by this pass with a task dispatched    *)
(* for it, which the merge inserted with only the scanned ip and the mac.  *)
(***************************************************************************)
StaleEvictedOrReinserted ==
  pc \in {"merging", "waiting"} =>
    \A m \in stale :
      IF m \in macs
      THEN /\ m \in DOMAIN deviceTable
           /\ deviceTable[m] \in promises
           /\ pc = "merging" =>
                \E k \in 1..Len(devices) :
                  Entry(m) = [ip |-> devices[k].ip, mac |-> m,
                              hostname |-> Undefined, seen |-> Undefined,
                              tolerance |-> Undefined, buildStamp |-> Undefined,
                              biosVersion |-> Undefined, kernel |-> Undefined]
      ELSE m \notin DOMAIN deviceTable

\* a pass found a stale entry, its snapshot did not name the MAC, and it is gone
StaleEvicted ==
  /\ pc = "waiting"
  /\ \E m \in stale : m \notin macs /\ m \notin DOMAIN deviceTable

(***************************************************************************)
(* C8: an entry with now - seen < 60s is never removed from the table, by  *)
(* no step and for no snapshot; a failed or empty scan removes nothing by  *)
(* itself.  now is the clock at the end of the step, which no read of the  *)
(* eviction loop exceeds.                                                  *)
(***************************************************************************)
NoPrematureEviction ==
  [][\A m \in DOMAIN deviceTable :
       (Entry(m).seen.t = "number" /\ now' - Entry(m).seen.n < 60000)
         => m \in DOMAIN deviceTable']_vars

\* an empty scan ran its eviction 59999 ms after the entry was seen: it is kept
AgedEntryKeptByEmptyScan ==
  /\ pc = "merging"
  /\ devices = <<>>
  /\ \E m \in DOMAIN deviceTable : Entry(m).seen = Num(now - 59999)

(***************************************************************************)
(* C9: no key of the device table is a MAC of the ignore set, and no       *)
(* classification task (no device object) exists for such a MAC.           *)
(***************************************************************************)
IgnoredNeverInTable ==
  \A m \in {"ee:ff"} :
    /\ m \notin DOMAIN deviceTable
    /\ \A i \in Ids : heap[i].mac # m

\* a snapshot that names the ignored MAC twice has been merged
IgnoredScannedTwice ==
  /\ pc = "merging"
  /\ idx > Len(devices)
  /\ Len(devices) = 2
  /\ devices[1].mac = "ee:ff"
  /\ devices[2].mac = "ee:ff"

(***************************************************************************)
(* C10: when a MAC of the table appears in the next scan with a different  *)
(* ip, the merge leaves the entry with the new ip, the same mac and the    *)
(* hostname, buildStamp, biosVersion, kernel and tolerance it had before.  *)
(***************************************************************************)
IpChurnKeepsState ==
  [][\A m \in MACS, ip \in IPS :
       (/\ pc = "merging"
        /\ idx <= Len(devices)
        /\ idx' = idx + 1
        /\ devices[idx] = [ip |-> ip, mac |-> m]
        /\ m \notin macs
        /\ m \notin {"ee:ff"}
        /\ m \in DOMAIN deviceTable
        /\ Entry(m).ip # ip)
       =>
       /\ m \in DOMAIN deviceTable'
       /\ Entry(m)'.ip = ip
       /\ Entry(m)'.mac = m
       /\ Entry(m)'.hostname = Entry(m).hostname
       /\ Entry(m)'.buildStamp = Entry(m).buildStamp
       /\ Entry(m)'.biosVersion = Entry(m).biosVersion
       /\ Entry(m)'.kernel = Entry(m).kernel
       /\ Entry(m)'.tolerance = Entry(m).tolerance]_vars

(***************************************************************************)
(* C11  Projection exclusion.  Whenever GET /devices may run, also in the  *)
(* middle of a cycle, an entry whose buildStamp is unset is the source of  *)
(* no key of the JSON result and of no element of the text list, whatever  *)
(* its hostname.                                                           *)
(***************************************************************************)
UnclassifiedNeverListed ==
  LET json == DevicesJson
      text == DevicesText
      listed == ListedKeys
  IN \A m \in DOMAIN deviceTable :
       Entry(m).buildStamp.t # "string" =>
         /\ \A h \in DOMAIN json : json[h].mac # m
         /\ \A k \in 1..Len(listed) : listed[k] # m
         /\ Len(text) <= Cardinality({x \in DOMAIN deviceTable : x # m})

\* in the middle of a cycle a resolved device without a build stamp is in the
\* table while another device is listed
ResolvedUnclassifiedOmitted ==
  /\ pc = "waiting"
  /\ \E m \in DOMAIN deviceTable :
       /\ Entry(m).hostname = Str("box")
       /\ Entry(m).buildStamp.t # "string"
       /\ taskPc[deviceTable[m]] = "stamp"
  /\ Len(DevicesText) = 1
  /\ DevicesText[1] = "box"
  /\ DOMAIN DevicesJson = {"box"}

(***************************************************************************)
(* C12  The loop always reschedules.  Whatever the scan and the tasks of a *)
(* cycle do, deviceScan never ends without having scheduled the next       *)
(* cycle: at every moment either a cycle is running towards its join or a  *)
(* timer for the next cycle is pending.                                    *)
(***************************************************************************)
LoopAlwaysReschedules ==
  \/ pc \in {"scanning", "merging", "waiting"}
  \/ pc = "idle" /\ timers # {}

(***************************************************************************)
(* C13  Successful classification.  Once the task of a table entry has     *)
(* obtained a build stamp (any non-null value, the empty string included)  *)
(* the entry keeps it through the BIOS and kernel reads, and when the task *)
(* has ended the entry has tolerance 0, is classified (sku true), and no   *)
(* step dispatches a classification task for its MAC.                      *)
(***************************************************************************)
StampObtainedClassifies ==
  [][\A m \in MACS :
       /\ ( /\ m \in DOMAIN deviceTable
            /\ Entry(m).buildStamp.t = "string"
            /\ m \in DOMAIN deviceTable'
            /\ deviceTable'[m] = deviceTable[m] )
          => Entry(m)'.buildStamp = Entry(m).buildStamp
       /\ ( /\ m \in DOMAIN deviceTable
            /\ Entry(m).buildStamp.t = "string"
            /\ taskPc[deviceTable[m]] = "done" )
          => /\ Entry(m).tolerance = Num(0)
             /\ Entry(m).buildStamp.s # ""
             /\ ~Dispatched(m)]_vars

(***************************************************************************)
(* C14  Merge before dispatch.  Within one cycle every table mutation of   *)
(* the merge step happens before the first classification task of the      *)
(* cycle is dispatched: once a task of the cycle has been dispatched, the   *)
(* loop inserts, replaces and refreshes nothing.                            *)
(***************************************************************************)
MergeBeforeDispatch ==
  [][(pc = "merging" /\ promises # {})
       => /\ deviceTable' = deviceTable
          /\ \A m \in DOMAIN deviceTable : Entry(m)' = Entry(m)]_vars

\* C14, amended: eviction precedes every dispatch, a task is dispatched only
\* by the merge loop, and no callback of a classification task runs before
\* the loop has merged the whole snapshot and is suspended at the join.
MergeBeforeCallback ==
  [][/\ (\E m \in MACS : Dispatched(m))
          => pc = "merging" /\ DOMAIN deviceTable \subseteq DOMAIN deviceTable'
     /\ (\E i \in Ids : /\ taskPc[i] \in {"resolve", "stamp", "bios", "kernel"}
                        /\ taskPc'[i] # taskPc[i])
          => pc \in {"waiting", "crashed"} /\ pc' = pc]_vars

\* the first device of a snapshot was dispatched before the second was
\* merged, and its callback has run after both were merged
CallbackAfterWholeMerge ==
  /\ pc = "waiting"
  /\ Cardinality(macs) = 2
  /\ Cardinality(promises) = 2
  /\ \E i, j \in promises : taskPc[i] = "stamp" /\ taskPc[j] = "resolve"

(***************************************************************************)
(* C15  Initial state of a new entry.  When the merge inserts a MAC that   *)
(* was not in the table, the entry has, from that step on, the scanned ip, *)
(* seen = now, tolerance = 0, and hostname, buildStamp, biosVersion and    *)
(* kernel unset.                                                           *)
(***************************************************************************)
NewEntryInitialised ==
  [][\A m \in MACS, ip \in IPS :
       ( /\ pc = "merging"
         /\ idx <= Len(devices)
         /\ idx' = idx + 1
         /\ devices[idx] = [ip |-> ip, mac |-> m]
         /\ m \notin DOMAIN deviceTable
         /\ m \in DOMAIN deviceTable' )
       => /\ Entry(m)'.ip = ip
          /\ Entry(m)'.mac = m
          /\ Entry(m)'.seen = Num(now)
          /\ Entry(m)'.tolerance = Num(0)
          /\ Entry(m)'.hostname = Undefined
          /\ Entry(m)'.buildStamp = Undefined
          /\ Entry(m)'.biosVersion = Undefined
          /\ Entry(m)'.kernel = Undefined]_vars

(***************************************************************************)
(* C16  seen is monotonically non-decreasing for a live entry.  From one   *)
(* state to the next, while a MAC stays a key of the table, the seen value *)
(* of its entry, once a number, stays a number and does not decrease, also *)
(* when the entry is probed again.                                         *)
(***************************************************************************)
SeenNeverDecreases ==
  [][\A m \in MACS :
       ( /\ m \in DOMAIN deviceTable
         /\ m \in DOMAIN deviceTable'
         /\ Entry(m).seen.t = "number" )
       => /\ Entry(m)'.seen.t = "number"
          /\ Entry(m)'.seen.n >= Entry(m).seen.n]_vars

(***************************************************************************)
(* C17  Resolver failure leaves classification fields alone.  When the     *)
(* task of a table entry ends at its first callback with a null           *)
(* resolution, the entry has seen = now and its tolerance one higher, and  *)
(* its hostname, buildStamp, biosVersion and kernel are those the entry of *)
(* that MAC had before the cycle: a hostname resolved earlier remains set. *)
(* Unset is read as undefined or null alike.                               *)
(***************************************************************************)
NullResolutionKeepsFields ==
  [][\A m \in MACS :
       ( /\ m \in DOMAIN deviceTable
         /\ m \in DOMAIN before
         /\ taskPc[deviceTable[m]] = "resolve"
         /\ taskPc'[deviceTable[m]] = "done"
         /\ Entry(m)'.hostname # Str("") )
       => /\ Entry(m)'.seen = Num(now)
          /\ Entry(m).tolerance.t = "number"
               => Entry(m)'.tolerance = Num(Entry(m).tolerance.n + 1)
          /\ \A f \in {"hostname", "buildStamp", "biosVersion", "kernel"} :
               IF before[m][f].t = "string"
               THEN Entry(m)'[f] = before[m][f]
               ELSE Entry(m)'[f].t # "string"]_vars

(***************************************************************************)
(* C18  Unpublishable host.  When the resolution of a table entry's task   *)
(* yields the empty string, the task sets hostname = "" and seen = now and *)
(* ends: no build-stamp, BIOS or kernel read follows and tolerance is      *)
(* unchanged.  An entry left in that state is not throttled, and the next  *)
(* cycle that scans its MAC probes it again.                               *)
(***************************************************************************)
EmptyHostnameStopsAndRetries ==
  [][\A m \in MACS :
       /\ ( /\ m \in DOMAIN deviceTable
            /\ taskPc[deviceTable[m]] = "resolve"
            /\ taskPc'[deviceTable[m]] # "resolve"
            /\ Entry(m)'.hostname = Str("") )
          => /\ taskPc'[deviceTable[m]] = "done"
             /\ Entry(m)'.seen = Num(now)
             /\ Entry(m)'.tolerance = Entry(m).tolerance
             /\ Entry(m)'.buildStamp = Entry(m).buildStamp
             /\ Entry(m)'.biosVersion = Entry(m).biosVersion
             /\ Entry(m)'.kernel = Entry(m).kernel
       /\ ( /\ m \in DOMAIN deviceTable
            /\ Entry(m).hostname = Str("")
            /\ taskPc[deviceTable[m]] = "done" )
          => /\ ~(Entry(m).tolerance.t = "number" /\ Entry(m).tolerance.n > 5)
             /\ \A ip \in IPS :
                  ( /\ pc = "merging"
                    /\ idx <= Len(devices)
                    /\ idx' = idx + 1
                    /\ devices[idx] = [ip |-> ip, mac |-> m]
                    /\ m \notin macs )
                  => Dispatched(m)]_vars

\* an entry whose resolution yielded "" in the cycle before is being probed
\* again, with the tolerance it had
EmptyHostnameProbedAgain ==
  \E m \in DOMAIN before :
    /\ before[m].hostname = Str("")
    /\ m \in DOMAIN deviceTable
    /\ taskPc[deviceTable[m]] = "resolve"
    /\ Entry(m).tolerance.t = "number"
    /\ pc = "waiting"

(***************************************************************************)
(* C19  A task writes to the table's record.  While a classification task  *)
(* is in flight, the object it mutates is the object stored in the device  *)
(* table under its MAC: no task in flight holds a record that was evicted  *)
(* or replaced.                                                            *)
(***************************************************************************)
TaskRecordIsTableEntry ==
  \A i \in Ids :
    taskPc[i] \in {"resolve", "stamp", "bios", "kernel"}
      => /\ heap[i].mac \in DOMAIN deviceTable
         /\ deviceTable[heap[i].mac] = i

\* in a later cycle the task of an entry that replaced an older one is between
\* two of its writes, on the record stored under its MAC
TaskMidWriteOnTableEntry ==
  /\ pc = "waiting"
  /\ \E m \in DOMAIN deviceTable :
       /\ taskPc[deviceTable[m]] = "bios"
       /\ Entry(m).buildStamp.t = "string"
       /\ m \notin fresh
       /\ Entry(m).tolerance.t = "number"

(***************************************************************************)
(* C20  A read returns fully classified devices only.  Whenever GET        *)
(* /devices may run, every device it lists (sku true) has a task that has  *)
(* finished its writes: biosVersion and kernel have been written and       *)
(* tolerance is 0; no read sees buildStamp set while the BIOS or kernel    *)
(* read of the same task is pending.                                       *)
(***************************************************************************)
ListedDeviceFullyClassified ==
  pc # "merging" =>
    \A k \in 1..Len(ListedKeys) :
      LET m == ListedKeys[k]
      IN /\ taskPc[deviceTable[m]] \notin {"bios", "kernel"}
         /\ Entry(m).biosVersion # Undefined
         /\ Entry(m).kernel # Undefined
         /\ Entry(m).tolerance = Num(0)
         /\ DevicesJson[PropertyKey(Entry(m).hostname)].biosVersion # Undefined

====
